---------------------------- MODULE Spec2Model ----------------------------
(***************************************************************************)
(* Model of tensorflow_datasets/core/features/text/text_encoder.py:        *)
(* the Tokenizer (regex splitting, reserved tokens, join) and the          *)
(* TokenTextEncoder (vocabulary list, token -> id dict, OOV hash buckets). *)
(*                                                                         *)
(* A unicode string is a sequence of one-character strings.  A behaviour   *)
(* constructs one object and then calls its methods; `call` is the call    *)
(* last made and `ret` what it returned or raised.                         *)
(***************************************************************************)
EXTENDS Integers, Sequences, FiniteSets, TLC

VARIABLES obj, call, ret

vars == <<obj, call, ret>>

---------------------------------------------------------------------------
(* Bounds of the model.                                                    *)

\* longest text passed to tokenize / encode
MaxLen == 4
\* most reserved tokens given to a Tokenizer
MaxReserved == 1
\* longest reserved token
MaxResLen == 2
\* most entries of a vocabulary list or lines of a vocabulary file
MaxVocab == 2
\* longest vocabulary entry, before it is stripped
MaxTokLen == 2
\* most OOV buckets
MaxBuckets == 2
\* most ids passed to decode
MaxIds == 1

---------------------------------------------------------------------------
(* Characters.  "a" is a word character (\w), " " is whitespace and "."    *)
(* is punctuation; both are \W.  "." is also the regex wildcard.           *)

WordChars == {"a"}
SpaceChars == {" "}
Chars == WordChars \cup SpaceChars \cup {"."}

\* every string over cs of length at most n
Strings(cs, n) == UNION {[1..k -> cs] : k \in 0..n}

Texts == Strings(Chars, MaxLen)

RECURSIVE Flatten(_)
\* list.extend over a list of lists
Flatten(ss) ==
  IF ss = <<>> THEN <<>> ELSE Head(ss) \o Flatten(Tail(ss))

\* u"<sep>".join(tokens)
StrJoin(sep, tokens) ==
  Flatten([i \in 1..Len(tokens) |->
             IF i = 1 THEN tokens[i] ELSE sep \o tokens[i]])

Range(f) == {f[i] : i \in DOMAIN f}

---------------------------------------------------------------------------
(* Regular expressions, as far as the Tokenizer builds them.               *)

\* \w under re.UNICODE
IsWord(c) == c \in WordChars

\* one pattern character against one text character: "." is the wildcard
\* (any character but a newline), every other character of Chars is literal
AtomMatches(p, c) == IF p = "." THEN c # "\n" ELSE p = c

\* the alternative alt matches s at index i
AltMatches(alt, s, i) ==
  /\ i + Len(alt) - 1 <= Len(s)
  /\ \A j \in 1..Len(alt) : AtomMatches(alt[j], s[i + j - 1])

\* r"\W+" compiled for both values of alphanum_only: the group is lost
AlphanumReNoGroup(alphanum_only) == [kind |-> "W+", group |-> FALSE, alts |-> <<>>]

\* re.compile(r"\W+") / re.compile(r"(\W+)")
AlphanumRe(alphanum_only) == [kind |-> "W+", group |-> ~alphanum_only, alts |-> <<>>]

\* re.compile(u"(%s)" % u"|".join(reserved_tokens)): the tokens are not
\* escaped, so each is an alternative read as a pattern
ReservedRe(reserved_tokens) == [kind |-> "alt", group |-> TRUE, alts |-> reserved_tokens]

\* the attribute _reserved_tokens_re, when __init__ did not set it
NoRe == [kind |-> "unset", group |-> FALSE, alts |-> <<>>]

\* MatchEnd with \W in place of \W+: one character is matched, not the run
MatchEndOneChar(re, s, i) ==
  IF re.kind = "W+"
  THEN IF IsWord(s[i]) THEN 0 ELSE i
  ELSE LET hits == {k \in 1..Len(re.alts) : AltMatches(re.alts[k], s, i)}
       IN  IF hits = {} THEN 0
           ELSE LET k == CHOOSE k \in hits : \A h \in hits : k <= h
                IN  i + Len(re.alts[k]) - 1

\* index of the last character of the match of re that starts at i, 0 if
\* none: \W+ takes the whole run of non-word characters, an alternation
\* takes its first alternative that matches
MatchEnd(re, s, i) ==
  IF re.kind = "W+"
  THEN IF IsWord(s[i]) THEN 0
       ELSE CHOOSE e \in i..Len(s) :
              /\ \A j \in i..e : ~IsWord(s[j])
              /\ (e = Len(s) \/ IsWord(s[e + 1]))
  ELSE LET hits == {k \in 1..Len(re.alts) : AltMatches(re.alts[k], s, i)}
       IN  IF hits = {} THEN 0
           ELSE LET k == CHOOSE k \in hits : \A h \in hits : k <= h
                IN  i + Len(re.alts[k]) - 1

\* start of the leftmost match at or after pos, 0 if none
Search(re, s, pos) ==
  LET starts == {i \in pos..Len(s) : MatchEnd(re, s, i) > 0}
  IN  IF starts = {} THEN 0
      ELSE CHOOSE i \in starts : \A h \in starts : i <= h

RECURSIVE SplitFrom(_, _, _)
SplitFrom(re, s, pos) ==
  LET i == Search(re, s, pos)
  IN  IF i = 0 THEN <<SubSeq(s, pos, Len(s))>>
      ELSE LET e == MatchEnd(re, s, i)
           IN  <<SubSeq(s, pos, i - 1)>>
               \o (IF re.group THEN <<SubSeq(s, i, e)>> ELSE <<>>)
               \o SplitFrom(re, s, e + 1)

\* pattern.split(s)
ReSplit(re, s) == SplitFrom(re, s, 1)

---------------------------------------------------------------------------
(* Tokenizer                                                               *)

\* Tokenizer.__init__
NewTokenizer(alphanum_only, reserved_tokens) ==
  [alphanum_only      |-> alphanum_only,
   reserved_tokens    |-> Range(reserved_tokens),
   reserved_tokens_re |-> IF Range(reserved_tokens) # {}
                          THEN ReservedRe(reserved_tokens) ELSE NoRe,
   alphanum_re        |-> AlphanumRe(alphanum_only)]

\* tokenize without its filter of empty strings
tokenizeKeepEmpty(self, s) ==
  LET substrs == IF self.reserved_tokens # {}
                 THEN ReSplit(self.reserved_tokens_re, s)
                 ELSE <<s>>
  IN  Flatten([i \in 1..Len(substrs) |->
                 IF substrs[i] \in self.reserved_tokens
                 THEN <<substrs[i]>>
                 ELSE ReSplit(self.alphanum_re, substrs[i])])

\* Tokenizer.tokenize
tokenize(self, s) ==
  LET substrs == IF self.reserved_tokens # {}
                 THEN ReSplit(self.reserved_tokens_re, s)
                 ELSE <<s>>
      toks == Flatten([i \in 1..Len(substrs) |->
                         IF substrs[i] \in self.reserved_tokens
                         THEN <<substrs[i]>>
                         ELSE ReSplit(self.alphanum_re, substrs[i])])
  IN  SelectSeq(toks, LAMBDA t : t # <<>>)

\* Tokenizer.join
join(self, tokens) ==
  IF self.alphanum_only THEN StrJoin(<<" ">>, tokens) ELSE StrJoin(<<>>, tokens)

---------------------------------------------------------------------------
(* TokenTextEncoder                                                        *)

\* Python's None, and a value that was passed
None == [given |-> FALSE, val |-> <<>>]
Some(v) == [given |-> TRUE, val |-> v]

\* truth value of an argument that is None, a list or a string
Truthy(arg) == arg.given /\ arg.val # <<>>

\* unicode.strip()
strip(s) ==
  LET keep == {i \in 1..Len(s) : s[i] \notin SpaceChars}
  IN  IF keep = {} THEN <<>>
      ELSE SubSeq(s, CHOOSE i \in keep : \A j \in keep : i <= j,
                     CHOOSE i \in keep : \A j \in keep : i >= j)

\* tf.compat.as_bytes of one character: its UTF-8 encoding
Utf8(c) == CASE c = "a" -> <<97>> [] c = " " -> <<32>> [] c = "." -> <<46>>

\* tf.compat.as_bytes(token)
as_bytes(token) == Flatten([i \in 1..Len(token) |-> Utf8(token[i])])

\* hashlib.md5(bytes).digest(), for the byte strings as_bytes gives the
\* tokens the encoder's tokenizer can produce: runs of "a"
md5(bytes) ==
  CASE bytes = <<97>> ->
         <<12, 193, 117, 185, 192, 241, 182, 168, 49, 195, 153, 226, 105, 119, 38, 97>>
    [] bytes = <<97, 97>> ->
         <<65, 36, 188, 10, 147, 53, 194, 127, 8, 111, 36, 186, 32, 122, 73, 18>>
    [] bytes = <<97, 97, 97>> ->
         <<71, 188, 229, 199, 79, 88, 159, 72, 103, 219, 213, 126, 156, 169, 248, 8>>
    [] bytes = <<97, 97, 97, 97>> ->
         <<116, 184, 115, 55, 69, 66, 0, 212, 211, 63, 128, 196, 102, 61, 197, 229>>
    [] bytes = <<97, 97, 97, 97, 97>> ->
         <<89, 79, 128, 59, 56, 10, 65, 57, 110, 214, 61, 202, 57, 80, 53, 66>>
    [] bytes = <<97, 97, 97, 97, 97, 97>> ->
         <<11, 78, 122, 14, 95, 232, 74, 211, 95, 181, 249, 91, 156, 238, 172, 121>>

RECURSIVE DigestMod(_, _, _)
\* int(hexdigest, 16) % m: the digest read as a big-endian number, reduced
\* byte by byte, starting from remainder r
DigestMod(digest, m, r) ==
  IF digest = <<>> THEN r
  ELSE DigestMod(Tail(digest), m, (r * 256 + Head(digest)) % m)

\* TokenTextEncoder._load_tokens_from_file, of a file holding these lines
load_tokens_from_file(lines) == [i \in 1..Len(lines) |-> strip(lines[i])]

\* dict(zip(vocab_list, range(len(vocab_list)))): a later entry of the same
\* key replaces an earlier one
token_to_id(vocab_list) ==
  [t \in Range(vocab_list) |->
     (CHOOSE i \in 1..Len(vocab_list) :
        /\ vocab_list[i] = t
        /\ \A j \in 1..Len(vocab_list) : vocab_list[j] = t => j <= i) - 1]

OovToken == <<"U", "N", "K">>

\* the guard written with "is None" tests in place of truth values
InitRaisesIsNone(vocab_list, vocab_file) ==
  \/ ~(vocab_list.given \/ vocab_file.given)
  \/ (vocab_list.given /\ vocab_file.given)

\* the guard of TokenTextEncoder.__init__
InitRaises(vocab_list, vocab_file) ==
  \/ ~(Truthy(vocab_list) \/ Truthy(vocab_file))
  \/ (Truthy(vocab_list) /\ Truthy(vocab_file))

\* TokenTextEncoder.__init__, past its guard; lines are the lines of the
\* file named vocab_file
NewTokenTextEncoder(vocab_list, lines, oov_buckets, oov_token) ==
  LET source == IF Truthy(vocab_list) THEN vocab_list.val
                ELSE load_tokens_from_file(lines)
      list == [i \in 1..Len(source) |-> strip(source[i])]
  IN  [vocab_list  |-> list,
       token_to_id |-> token_to_id(list),
       oov_buckets |-> oov_buckets,
       oov_token   |-> oov_token,
       tokenizer   |-> NewTokenizer(TRUE, <<>>)]

\* _oov_bucket without the offset len(vocab_list) on the hashed id
oov_bucketNoOffset(self, token) ==
  IF self.oov_buckets <= 0 THEN -1
  ELSE IF self.oov_buckets = 1 THEN Len(self.vocab_list)
  ELSE DigestMod(md5(as_bytes(token)), self.oov_buckets, 0)

\* TokenTextEncoder._oov_bucket; -1 stands for None
oov_bucket(self, token) ==
  IF self.oov_buckets <= 0 THEN -1
  ELSE IF self.oov_buckets = 1 THEN Len(self.vocab_list)
  ELSE Len(self.vocab_list) + DigestMod(md5(as_bytes(token)), self.oov_buckets, 0)

RECURSIVE EncodeTokensSkip(_, _, _)
\* the loop of encode with "continue" in place of the raise
EncodeTokensSkip(self, tokens, ids) ==
  IF tokens = <<>> THEN [ok |-> TRUE, kind |-> "ids", ids |-> ids]
  ELSE LET token == Head(tokens)
           found == IF token \in DOMAIN self.token_to_id
                    THEN self.token_to_id[token] ELSE -1
           int_id == IF found < 0 THEN oov_bucket(self, token) ELSE found
       IN  IF found < 0 /\ int_id = -1
           THEN EncodeTokensSkip(self, Tail(tokens), ids)
           ELSE EncodeTokensSkip(self, Tail(tokens), Append(ids, int_id))

RECURSIVE EncodeTokens(_, _, _)
\* the loop of TokenTextEncoder.encode
EncodeTokens(self, tokens, ids) ==
  IF tokens = <<>> THEN [ok |-> TRUE, kind |-> "ids", ids |-> ids]
  ELSE LET token == Head(tokens)
           found == IF token \in DOMAIN self.token_to_id
                    THEN self.token_to_id[token] ELSE -1
           int_id == IF found < 0 THEN oov_bucket(self, token) ELSE found
       IN  IF found < 0 /\ int_id = -1
           THEN [ok |-> FALSE, kind |-> "ValueError",
                 msg |-> "Out of vocabulary token %s", token |-> token]
           ELSE EncodeTokens(self, Tail(tokens), Append(ids, int_id))

\* TokenTextEncoder.encode
encode(self, s) == EncodeTokens(self, tokenize(self.tokenizer, s), <<>>)

\* one step of the loop of TokenTextEncoder.decode: the token for int_id,
\* or <<>> with raised set when list indexing raises IndexError
DecodeId(self, int_id) ==
  LET V == Len(self.vocab_list)
  IN  IF int_id < V
      THEN IF int_id >= 0 THEN [raised |-> FALSE, token |-> self.vocab_list[int_id + 1]]
           ELSE IF int_id >= -V
                THEN [raised |-> FALSE, token |-> self.vocab_list[V + int_id + 1]]
                ELSE [raised |-> TRUE, token |-> <<>>]
      ELSE [raised |-> FALSE, token |-> self.oov_token]

\* TokenTextEncoder.decode
decode(self, ids) ==
  LET each == [i \in 1..Len(ids) |-> DecodeId(self, ids[i])]
  IN  IF \E i \in 1..Len(ids) : each[i].raised
      THEN [ok |-> FALSE, kind |-> "IndexError"]
      ELSE [ok |-> TRUE, kind |-> "str",
            str |-> StrJoin(<<" ">>, [i \in 1..Len(ids) |-> each[i].token])]

\* TokenTextEncoder.vocab_size
vocab_size(self) == Len(self.vocab_list) + self.oov_buckets

---------------------------------------------------------------------------
(* The state machine: one object is constructed and bound, then one method *)
(* of it is called, and the calls the round trips need follow on its       *)
(* result.  obj is the program's state; call and ret record the last call. *)

ResChars == WordChars \cup {"."}
ReservedTokens == Strings(ResChars, MaxResLen) \ {<<>>}
ReservedLists == UNION {[1..k -> ReservedTokens] : k \in 0..MaxReserved}

VocabChars == WordChars \cup SpaceChars
RawTokens == Strings(VocabChars, MaxTokLen)
VocabLists == UNION {[1..k -> RawTokens] : k \in 0..MaxVocab}
\* what split(u"\n") gives for a file: at least one line
FileLines == VocabLists \ {<<>>}
\* a file path, and the empty string
Paths == {<<>>, <<"a">>}

NoObj == [class |-> "none"]
NoCall == [op |-> "none"]
NoRet == [ok |-> TRUE, kind |-> "none"]

Init ==
  /\ obj = NoObj
  /\ call = NoCall
  /\ ret = NoRet

\* t = Tokenizer(alphanum_only, reserved_tokens)
TokenizerInit ==
  /\ call.op = "none"
  /\ \E alphanum_only \in BOOLEAN, reserved_tokens \in ReservedLists :
       /\ obj' = [class |-> "Tokenizer",
                  self |-> NewTokenizer(alphanum_only, reserved_tokens)]
       /\ call' = [op |-> "Tokenizer", alphanum_only |-> alphanum_only,
                   reserved_tokens |-> reserved_tokens]
       /\ ret' = [ok |-> TRUE, kind |-> "object"]

\* the constructor has returned: the caller holds the object, and the
\* constructor's arguments are gone
Bind ==
  /\ obj.class # "none"
  /\ call.op \in {"Tokenizer", "TokenTextEncoder"}
  /\ call' = [op |-> "bound"]
  /\ ret' = NoRet
  /\ UNCHANGED obj

\* toks = t.tokenize(s)
Tokenize ==
  /\ obj.class = "Tokenizer"
  /\ call.op = "bound"
  /\ \E s \in Texts :
       /\ call' = [op |-> "tokenize", s |-> s]
       /\ ret' = [ok |-> TRUE, kind |-> "tokens", toks |-> tokenize(obj.self, s)]
  /\ UNCHANGED obj

\* joined = t.join(toks), of the tokens tokenize just returned for s
Join ==
  /\ obj.class = "Tokenizer"
  /\ call.op = "tokenize"
  /\ call' = [op |-> "join", s |-> call.s, tokens |-> ret.toks]
  /\ ret' = [ok |-> TRUE, kind |-> "str", str |-> join(obj.self, ret.toks)]
  /\ UNCHANGED obj

\* t.tokenize(joined), of the string join just returned
Retokenize ==
  /\ obj.class = "Tokenizer"
  /\ call.op = "join"
  /\ call' = [op |-> "retokenize", s |-> ret.str, tokens |-> call.tokens]
  /\ ret' = [ok |-> TRUE, kind |-> "tokens", toks |-> tokenize(obj.self, ret.str)]
  /\ UNCHANGED obj

\* e = TokenTextEncoder(vocab_list, vocab_file, oov_buckets); lines is what
\* the file holds when it is read
TokenTextEncoderInit ==
  /\ call.op = "none"
  /\ \E vocab_list \in {None} \cup {Some(l) : l \in VocabLists},
        vocab_file \in {None} \cup {Some(p) : p \in Paths},
        oov_buckets \in 0..MaxBuckets :
       LET reads == ~InitRaises(vocab_list, vocab_file) /\ ~Truthy(vocab_list)
       IN  \E lines \in IF reads THEN FileLines ELSE {<<>>} :
             /\ call' = [op |-> "TokenTextEncoder", vocab_list |-> vocab_list,
                         vocab_file |-> vocab_file, lines |-> lines,
                         oov_buckets |-> oov_buckets]
             /\ IF InitRaises(vocab_list, vocab_file)
                THEN /\ obj' = NoObj
                     /\ ret' = [ok |-> FALSE, kind |-> "ValueError",
                                msg |-> "Must provide either vocab_list or vocab_file."]
                ELSE /\ obj' = [class |-> "TokenTextEncoder",
                                self |-> NewTokenTextEncoder(vocab_list, lines,
                                                             oov_buckets, OovToken)]
                     /\ ret' = [ok |-> TRUE, kind |-> "object"]

\* ids = e.encode(s)
Encode ==
  /\ obj.class = "TokenTextEncoder"
  /\ call.op = "bound"
  /\ \E s \in Texts :
       /\ call' = [op |-> "encode", s |-> s]
       /\ ret' = encode(obj.self, s)
  /\ UNCHANGED obj

\* the ids decode is tried on: a little past both ends of [0, vocab_size)
IdLists(self) ==
  UNION {[1..k -> (-Len(self.vocab_list) - 1)..(vocab_size(self) + 1)] : k \in 0..MaxIds}

\* e.decode(ids)
Decode ==
  /\ obj.class = "TokenTextEncoder"
  /\ call.op = "bound"
  /\ \E ids \in IdLists(obj.self) :
       /\ call' = [op |-> "decode", ids |-> ids]
       /\ ret' = decode(obj.self, ids)
  /\ UNCHANGED obj

\* e.decode(ids), of the ids encode just returned for s
DecodeEncoded ==
  /\ obj.class = "TokenTextEncoder"
  /\ call.op = "encode"
  /\ ret.ok
  /\ call' = [op |-> "decode_encoded", s |-> call.s, ids |-> ret.ids]
  /\ ret' = decode(obj.self, ret.ids)
  /\ UNCHANGED obj

\* e.encode(text), of the string decode just returned for ids
EncodeDecoded ==
  /\ obj.class = "TokenTextEncoder"
  /\ call.op = "decode"
  /\ ret.ok
  /\ call' = [op |-> "encode_decoded", s |-> ret.str, ids |-> call.ids]
  /\ ret' = encode(obj.self, ret.str)
  /\ UNCHANGED obj

\* e.vocab_size
VocabSize ==
  /\ obj.class = "TokenTextEncoder"
  /\ call.op = "bound"
  /\ call' = [op |-> "vocab_size"]
  /\ ret' = [ok |-> TRUE, kind |-> "int", n |-> vocab_size(obj.self)]
  /\ UNCHANGED obj

Next ==
  \/ TokenizerInit
  \/ Bind
  \/ Tokenize
  \/ Join
  \/ Retokenize
  \/ TokenTextEncoderInit
  \/ Encode
  \/ Decode
  \/ DecodeEncoded
  \/ EncodeDecoded
  \/ VocabSize

Spec == Init /\ [][Next]_vars


(* What the properties below speak of.                                     *)

\* obj is a Tokenizer with this alphanum_only and no reserved tokens
Plain(alphanum_only) ==
  /\ obj.class = "Tokenizer"
  /\ obj.self.alphanum_only = alphanum_only
  /\ obj.self.reserved_tokens = {}

AllWord(t) == \A i \in 1..Len(t) : IsWord(t[i])
NoWord(t) == \A i \in 1..Len(t) : ~IsWord(t[i])

\* the maximal runs of word characters of s, as index intervals
RunIntervals(s) ==
  {r \in (1..Len(s)) \X (1..Len(s)) :
     /\ r[1] <= r[2]
     /\ \A i \in r[1]..r[2] : IsWord(s[i])
     /\ (r[1] = 1 \/ ~IsWord(s[r[1] - 1]))
     /\ (r[2] = Len(s) \/ ~IsWord(s[r[2] + 1]))}

\* the maximal runs of word characters of s, left to right
WordRuns(s) ==
  LET R == RunIntervals(s)
  IN  [k \in 1..Cardinality(R) |->
         LET r == CHOOSE r \in R : Cardinality({q \in R : q[1] < r[1]}) = k - 1
         IN  SubSeq(s, r[1], r[2])]

\* the indices (from 0) at which the vocabulary holds token t
IndicesOf(self, t) == {i \in 0..(Len(self.vocab_list) - 1) : self.vocab_list[i + 1] = t}

Least(S) == CHOOSE i \in S : \A j \in S : i <= j

\* r occurs in s at index p with a word character on either side
Embedded(r, s, p) ==
  /\ p > 1
  /\ p + Len(r) <= Len(s)
  /\ SubSeq(s, p, p + Len(r) - 1) = r
  /\ IsWord(s[p - 1])
  /\ IsWord(s[p + Len(r)])

\* some reserved token occurs in s over indices that meet p..p+n-1, other
\* than the occurrence at p itself
Overlapped(self, s, p, n) ==
  \E q \in self.reserved_tokens : \E i \in 1..Len(s) :
    /\ i + Len(q) - 1 <= Len(s)
    /\ SubSeq(s, i, i + Len(q) - 1) = q
    /\ i <= p + n - 1
    /\ p <= i + Len(q) - 1
    /\ ~(i = p /\ Len(q) = n)

---------------------------------------------------------------------------
(* Properties                                                              *)

\* C1: with alphanum_only false and no reserved tokens, join(tokenize(s))
\* is s, for every string s.
C1_RoundTrip ==
  (call.op = "join" /\ Plain(FALSE)) => ret.str = call.s

\* a round trip of a text of word and non-word runs
C1_Witness ==
  /\ call.op = "join"
  /\ Plain(FALSE)
  /\ Len(call.tokens) >= 3
  /\ ret.str = call.s

\* C2: for every token t at index i of the vocabulary, encode(t) returns i
\* and decode(encode(t)) returns t.
C2_InVocabFidelity ==
  /\ (call.op = "encode" /\ call.s # <<>>) =>
       \A i \in IndicesOf(obj.self, call.s) : ret.ok /\ ret.ids = <<i>>
  /\ (call.op = "decode_encoded" /\ call.s # <<>>
        /\ IndicesOf(obj.self, call.s) # {}) =>
       ret.ok /\ ret.str = call.s

\* C3: when the vocabulary list holds a token more than once, encode of it
\* returns the index of its first occurrence, never a later one, and
\* encode(decode(i)) is i for that index.
C3_FirstOccurrenceWins ==
  /\ (call.op = "encode" /\ call.s # <<>>
        /\ Cardinality(IndicesOf(obj.self, call.s)) > 1) =>
       ret.ok /\ ret.ids = <<Least(IndicesOf(obj.self, call.s))>>
  /\ (call.op = "encode_decoded" /\ Len(call.ids) = 1 /\ call.s # <<>>
        /\ Cardinality(IndicesOf(obj.self, call.s)) > 1
        /\ call.ids[1] = Least(IndicesOf(obj.self, call.s))) =>
       ret.ok /\ ret.ids = call.ids

\* C4: decode of an id outside [0, V+B) fails and returns no token.
C4_DecodeOutOfRangeFails ==
  (call.op = "decode"
     /\ \E k \in 1..Len(call.ids) : call.ids[k] \notin 0..(vocab_size(obj.self) - 1))
  => ~ret.ok

\* C5: with B > 0, a token that is not in the vocabulary is encoded as an id
\* in [V, V+B): V when B = 1, V + (md5 of the token's bytes mod B) when
\* B > 1.
C5_OovRange ==
  (call.op = "encode" /\ obj.self.oov_buckets > 0) =>
    LET toks == WordRuns(call.s)
        V == Len(obj.self.vocab_list)
        B == obj.self.oov_buckets
    IN  /\ ret.ok
        /\ Len(ret.ids) = Len(toks)
        /\ \A k \in 1..Len(toks) :
             toks[k] \notin Range(obj.self.vocab_list) =>
               /\ V <= ret.ids[k]
               /\ ret.ids[k] < V + B
               /\ B = 1 => ret.ids[k] = V
               /\ B > 1 => ret.ids[k] = V + DigestMod(md5(as_bytes(toks[k])), B, 0)

\* an unknown token hashed into a bucket other than the first, after a
\* token of the vocabulary
C5_Witness ==
  /\ call.op = "encode"
  /\ obj.self.oov_buckets > 1
  /\ Len(obj.self.vocab_list) > 0
  /\ ret.ok
  /\ Len(ret.ids) = 2
  /\ ret.ids[1] < Len(obj.self.vocab_list)
  /\ ret.ids[2] > Len(obj.self.vocab_list)
  /\ WordRuns(call.s)[2] \notin Range(obj.self.vocab_list)

\* C6: with B = 0, encode fails exactly when the text holds a token that is
\* not in the vocabulary; it then raises the out-of-vocabulary error naming
\* the first such token and returns no ids.
C6_NoBucketsRaises ==
  (call.op = "encode" /\ obj.self.oov_buckets = 0) =>
    LET toks == WordRuns(call.s)
        missing == {k \in 1..Len(toks) : toks[k] \notin Range(obj.self.vocab_list)}
    IN  /\ ret.ok <=> missing = {}
        /\ missing # {} =>
             /\ ret.kind = "ValueError"
             /\ ret.msg = "Out of vocabulary token %s"
             /\ ret.token = toks[Least(missing)]
             /\ "ids" \notin DOMAIN ret
        /\ missing = {} => Len(ret.ids) = Len(toks)

\* an unknown token after a known one, with no buckets
C6_Witness ==
  /\ call.op = "encode"
  /\ obj.self.oov_buckets = 0
  /\ ~ret.ok
  /\ Len(WordRuns(call.s)) = 2
  /\ WordRuns(call.s)[1] \in Range(obj.self.vocab_list)
  /\ ret.token = WordRuns(call.s)[2]

\* C7: a reserved token r that occurs in the input between alphanumeric
\* characters comes out of tokenize as one token, at that place when
\* alphanum_only is false.  (Occurrences that another occurrence of a
\* reserved token overlaps are left out: alternation order decides those.)
C7_ReservedAtomic ==
  (call.op = "tokenize" /\ obj.self.reserved_tokens # {}) =>
    \A r \in obj.self.reserved_tokens : \A p \in 1..Len(call.s) :
      (Embedded(r, call.s, p) /\ ~Overlapped(obj.self, call.s, p, Len(r))) =>
        \E k \in 1..Len(ret.toks) :
          /\ ret.toks[k] = r
          /\ ~obj.self.alphanum_only =>
               Len(Flatten(SubSeq(ret.toks, 1, k - 1))) = p - 1

\* C8, as stated: construction fails exactly when both sources are passed,
\* or neither is, or the list is empty and there is no OOV bucket.  A list
\* is passed when it is not None, empty or not (the claim gives the empty
\* list a case of its own); a file is passed when its path is not empty.
C8_AsStated ==
  call.op = "TokenTextEncoder" =>
    LET list_passed == call.vocab_list.given
        file_passed == call.vocab_file.given /\ call.vocab_file.val # <<>>
    IN  ~ret.ok <=>
          \/ (list_passed /\ file_passed)
          \/ (~list_passed /\ ~file_passed)
          \/ (list_passed /\ call.vocab_list.val = <<>> /\ call.oov_buckets = 0)

\* C8, amended: construction raises ValueError exactly when both sources
\* are non-empty or neither is (None, an empty list and an empty path all
\* count as not given), whatever the number of OOV buckets; otherwise it
\* yields an encoder.
C8_ConstructionFails ==
  call.op = "TokenTextEncoder" =>
    LET has_list == call.vocab_list.given /\ Len(call.vocab_list.val) > 0
        has_file == call.vocab_file.given /\ Len(call.vocab_file.val) > 0
    IN  /\ ~ret.ok <=> (has_list <=> has_file)
        /\ ~ret.ok => ret.kind = "ValueError" /\ obj.class = "none"
        /\ ret.ok => obj.class = "TokenTextEncoder"

\* an empty list, no file and an OOV bucket: construction raises
C8_Witness ==
  /\ call.op = "TokenTextEncoder"
  /\ call.vocab_list = Some(<<>>)
  /\ call.vocab_file = None
  /\ call.oov_buckets = 1
  /\ ~ret.ok

\* C9: with alphanum_only false and no reserved tokens, the tokens are
\* non-empty, each all alphanumeric or all non-alphanumeric, neighbours of
\* opposite class, and in text order.
C9_HomogeneousRuns ==
  (call.op = "tokenize" /\ Plain(FALSE)) =>
    /\ \A k \in 1..Len(ret.toks) :
         /\ ret.toks[k] # <<>>
         /\ AllWord(ret.toks[k]) \/ NoWord(ret.toks[k])
    /\ \A k \in 1..(Len(ret.toks) - 1) :
         AllWord(ret.toks[k]) <=> NoWord(ret.toks[k + 1])
    /\ Flatten(ret.toks) = call.s

\* a text of three runs, the middle one of two non-word characters
C9_Witness ==
  /\ call.op = "tokenize"
  /\ Plain(FALSE)
  /\ Len(ret.toks) = 3
  /\ Len(ret.toks[2]) = 2
  /\ NoWord(ret.toks[2])

\* C10: with alphanum_only true and no reserved tokens, tokenize returns the
\* maximal alphanumeric runs of s in text order, each non-empty and free of
\* non-alphanumeric characters (none when s has no alphanumeric character),
\* and tokenize(join(tokenize(s))) is tokenize(s).
C10_AlphanumRuns ==
  /\ (call.op = "tokenize" /\ Plain(TRUE)) =>
       /\ ret.toks = WordRuns(call.s)
       /\ \A k \in 1..Len(ret.toks) : ret.toks[k] # <<>> /\ AllWord(ret.toks[k])
       /\ NoWord(call.s) => ret.toks = <<>>
  /\ (call.op = "retokenize" /\ Plain(TRUE)) => ret.toks = call.tokens

\* two runs were found, joined with a space and found again
C10_Witness ==
  /\ call.op = "retokenize"
  /\ Plain(TRUE)
  /\ Len(call.tokens) = 2
  /\ Len(call.s) = 3
  /\ ret.toks = call.tokens

===========================================================================
